---- MODULE Spec2Model ----
(***************************************************************************)
(* A model of the stacktrace crate (src/src/lib.rs): StackInfo::new, the   *)
(* frame and symbol callbacks it hands to the backtrace crate, the three   *)
(* constructors of Trace<E> (new, result, trace) and the Debug renderings  *)
(* of FrameInfo, StackInfo and Trace<E>.                                   *)
(*                                                                         *)
(* The backtrace crate is a collaborator: what it enumerates and what it   *)
(* resolves is the environment's choice (symtab, chosen in Init).          *)
(***************************************************************************)
EXTENDS Integers, Sequences, FiniteSets, TLC

VARIABLES
    symtab,     \* environment: for each ip, the symbols backtrace::resolve finds
    callstack,  \* the thread's user call stack, outermost (main) first
    res,        \* the Result value in flight between the user's functions
    walks,      \* calls of backtrace::trace since the last Handle
    convs,      \* calls of From::from since the last Handle
    last,       \* the library call the latest step made: input, output, effects
    chain,      \* the traced error in flight: the error, snapshot and stack of the
                \* call that first traced it, and the Trace::trace hops since
    input,      \* the Trace handed to a Debug rendering / the frames of a capture
    output      \* what that rendering wrote / the snapshot that capture returned

vars == <<symtab, callstack, res, walks, convs, last, chain, input, output>>

----------------------------------------------------------------------------
(* Bounds *)

\* user functions layer1 .. layerN besides main; layer k calls only layer j, j < k
NLayers == 3
\* captures (backtrace::trace calls) between two Handle steps
MaxWalks == 2
\* Trace::trace hops a traced error is relayed through
MaxHops == 2
\* frames of a snapshot handed to the renderings
MaxFrames == 2
\* symbols backtrace::resolve reports for one frame (inlined functions)
MaxSyms == 2

----------------------------------------------------------------------------
(* Option<T>: None is the empty sequence, Some(x) the one-element sequence *)

None == <<>>
Some(x) == <<x>>
IsSome(o) == Len(o) = 1
IsNone(o) == Len(o) = 0
Unwrap(o) == o[1]

----------------------------------------------------------------------------
(* The program's functions.  1..4 are the capture machinery, 5 is main,    *)
(* 5 + k is the user's layer k.                                            *)

FnBacktraceTrace == 1
FnStackInfoNew == 2
FnTraceNew == 3
FnTraceResult == 4
FnMain == 5
Layer(k) == FnMain + k
IsUserFn(f) == f >= FnMain
IsMachineryFn(f) == f < FnMain

CrateOf(f) == IF f = FnBacktraceTrace THEN "backtrace"
              ELSE IF f < FnMain THEN "stacktrace" ELSE "user"
Crates == {"backtrace", "stacktrace", "user"}

\* the demangled path of each function, as the doc example prints them
FnPath(f) ==
    CASE f = 1 -> "backtrace::trace"
      [] f = 2 -> "stacktrace::StackInfo::new"
      [] f = 3 -> "stacktrace::Trace::new"
      [] f = 4 -> "stacktrace::Trace::result"
      [] f = 5 -> "simple::main"
      [] f = 6 -> "simple::layer1"
      [] f = 7 -> "simple::layer2"
      [] f = 8 -> "simple::layer3"
      [] f = 9 -> "simple::layer4"
      [] OTHER -> "simple::layer5"

\* the instruction pointer of a frame of function f, and f's own address
IpOf(f) == 16 * f + 4
AddrOf(f) == 16 * f
FnOfIp(ip) == ip \div 16

----------------------------------------------------------------------------
(* The backtrace crate, as far as lib.rs uses it.                          *)
(*   Symbol::name(), ::filename() : Option<&[u8]>, bytes that may or may   *)
(*                                  may not be UTF-8                       *)
(*   Symbol::addr()               : Option<*mut c_void>                    *)
(*   Symbol::lineno()             : Option<u32>                            *)

Bytes(valid, s) == [utf8 |-> valid, text |-> s]

\* std::str::from_utf8(bytes).ok()
FromUtf8Ok(bytes) == IF bytes.utf8 THEN Some(bytes.text) ELSE None

\* the (schematic) mangling of a path, and the names demangle gives up on
Mangle(path) == "_ZN" \o path \o "E"
IsMangled(s) == Len(s) >= 4 /\ SubSeq(s, 1, 3) = "_ZN" /\ SubSeq(s, Len(s), Len(s)) = "E"
DemangleFails == {"_ZN?"}

\* backtrace::demangle(&mut demangled, name_str): Ok with the text it wrote
\* to the buffer, or Err
Demangle(s) ==
    IF s \in DemangleFails THEN [ok |-> FALSE, text |-> ""]
    ELSE IF IsMangled(s) THEN [ok |-> TRUE, text |-> SubSeq(s, 4, Len(s) - 1)]
    ELSE [ok |-> TRUE, text |-> s]

Symbol(n, a, f, l) == [name |-> n, addr |-> a, filename |-> f, lineno |-> l]

\* the source file and line debug info gives for function f
FileOf(f) == CASE CrateOf(f) = "backtrace"  -> "backtrace/lib.rs"
               [] CrateOf(f) = "stacktrace" -> "src/lib.rs"
               [] OTHER                     -> "simple/main.rs"
LineOf(f) == 10 * f

FullSym(f) == Symbol(Some(Bytes(TRUE, Mangle(FnPath(f)))), Some(AddrOf(f)),
                     Some(Bytes(TRUE, FileOf(f))), Some(LineOf(f)))
InlinedSym(f) == Symbol(Some(Bytes(TRUE, Mangle("core::inlined"))), None,
                        Some(Bytes(TRUE, FileOf(f))), Some(LineOf(f) + 1))

\* what resolve reports for a frame of f on a platform of the given kind:
\* nothing, one symbol, or an inlined callee followed by f itself
Kinds == {"none", "full", "inlined"}
SymbolsOfKind(f, kind) ==
    CASE kind = "none"    -> <<>>
      [] kind = "full"    -> <<FullSym(f)>>
      [] OTHER            -> <<InlinedSym(f), FullSym(f)>>

AllFns == 1 .. Layer(NLayers)
PlatformTable(kindOf) == [ip \in {IpOf(f) : f \in AllFns} |->
                             SymbolsOfKind(FnOfIp(ip), kindOf[CrateOf(FnOfIp(ip))])]

\* backtrace::resolve(ip, cb): the symbols cb is called with, in call order
Resolve(ip) == symtab[ip]

\* backtrace::trace(cb): the frames cb is called with, innermost first: the
\* capture machinery the call went through (via), then the user's frames
Reverse(s) == [i \in 1 .. Len(s) |-> s[Len(s) + 1 - i]]
RawFrame(f) == [ip |-> IpOf(f)]
EnumerateFrames(stack, via) ==
    [i \in 1 .. Len(via) + Len(stack) |->
        IF i <= Len(via) THEN RawFrame(via[i]) ELSE RawFrame(Reverse(stack)[i - Len(via)])]

\* a capture that leaves no frames of its own (a macro expanded in the caller)
ViaNothing == <<>>
ViaDirect == <<FnBacktraceTrace, FnStackInfoNew>>
ViaTraceNew == <<FnBacktraceTrace, FnStackInfoNew, FnTraceNew>>
ViaTraceResult == <<FnBacktraceTrace, FnStackInfoNew, FnTraceResult>>

----------------------------------------------------------------------------
(* StackInfo::new                                                          *)

FrameInfo(ip, name, addr, filename, lineno) ==
    [ip |-> ip, name |-> name, addr |-> addr, filename |-> filename, lineno |-> lineno]

\* a name that falls back to the raw text when demangling fails
SymbolNameRawFallback(symbol) ==
    IF IsNone(symbol.name) THEN None
    ELSE IF IsNone(FromUtf8Ok(Unwrap(symbol.name))) THEN None
    ELSE LET raw == Unwrap(FromUtf8Ok(Unwrap(symbol.name)))
         IN  IF Demangle(raw).ok THEN Some(Demangle(raw).text) ELSE Some(raw)

\* symbol.name().and_then(from_utf8 .. ok()).and_then(demangle)
SymbolName(symbol) ==
    IF IsNone(symbol.name) THEN None
    ELSE IF IsNone(FromUtf8Ok(Unwrap(symbol.name))) THEN None
    ELSE LET d == Demangle(Unwrap(FromUtf8Ok(Unwrap(symbol.name))))
         IN  IF d.ok THEN Some(d.text) ELSE None

\* symbol.filename().and_then(from_utf8 .. ok()).map(to_owned)
SymbolFilename(symbol) ==
    IF IsNone(symbol.filename) THEN None ELSE FromUtf8Ok(Unwrap(symbol.filename))

\* the closure symbol_handler: pushes one FrameInfo for the symbol
SymbolHandler(frames, ip, symbol) ==
    Append(frames, FrameInfo(ip, SymbolName(symbol), symbol.addr,
                             SymbolFilename(symbol), symbol.lineno))

\* backtrace::resolve(ip, &mut symbol_handler) over the symbols it reports
RECURSIVE ResolveInto(_, _, _)
ResolveInto(frames, ip, symbols) ==
    IF symbols = <<>> THEN frames
    ELSE ResolveInto(SymbolHandler(frames, ip, Head(symbols)), ip, Tail(symbols))

\* the closure handed to backtrace::trace: resolves the frame's ip and
\* returns true (keep walking)
FrameCallback(frames, frame) ==
    [frames |-> ResolveInto(frames, frame.ip, Resolve(frame.ip)), cont |-> TRUE]

\* backtrace::trace: calls the closure frame by frame while it returns true
RECURSIVE TraceLoop(_, _)
TraceLoop(frames, raw) ==
    IF raw = <<>> THEN frames
    ELSE LET r == FrameCallback(frames, Head(raw))
         IN  IF r.cont THEN TraceLoop(r.frames, Tail(raw)) ELSE r.frames

\* StackInfo::new(), called with the thread's frames being raw
StackInfoNew(raw) == TraceLoop(<<>>, raw)

----------------------------------------------------------------------------
(* Result<A, E>, Trace<E> and the user's error types (examples/ex2)        *)

Ok(a) == [tag |-> "Ok", val |-> a]
Err(e) == [tag |-> "Err", val |-> e]
NoResult == [tag |-> "None", val |-> 0]
Trace(e, st) == [err |-> e, stacktrace |-> st]

\* an error is its constructors, outermost first, then its message:
\* ErrorY(ErrorX("boom")) is <<"ErrorY", "ErrorX", "boom">>
ErrTypes == {"ErrorX", "ErrorY", "ErrorZ"}
ErrMsgs == {"boom", "oh no!"}
OkVals == {"yolo", "got thing!"}
ErrorX(msg) == <<"ErrorX", msg>>
TypeOf(e) == Head(e)

\* the From instances in scope: std's impl From<T> for T, ErrorX -> ErrorY
\* and ErrorY -> ErrorZ
HasFrom(E, F) == F = E \/ <<E, F>> \in {<<"ErrorX", "ErrorY">>, <<"ErrorY", "ErrorZ">>}
From(F, e) == IF F = TypeOf(e) THEN e ELSE <<F>> \o e

\* what a library call returns, with the calls it made on the way: walked
\* counts its calls of StackInfo::new (backtrace::trace), converted its
\* calls of From::from
Effect(out, walked, converted) == [out |-> out, walked |-> walked, converted |-> converted]

\* Trace::new(e), raw being the thread's frames inside the capture
TraceNew(e, raw) == Effect(Trace(e, StackInfoNew(raw)), 1, 0)

\* Trace::result that wraps the error as it is, without From::from
TraceResultUnconverted(r, F, raw) ==
    IF r.tag = "Ok" THEN Effect(Ok(r.val), 0, 0)
    ELSE Effect(Err(Trace(r.val, StackInfoNew(raw))), 1, 0)

\* Trace::result that captures before it looks at the result
TraceResultEager(r, F, raw) ==
    IF r.tag = "Ok" THEN Effect(Ok(r.val), 1, 0)
    ELSE Effect(Err(Trace(From(F, r.val), StackInfoNew(raw))), 1, 1)

\* Trace::result::<A, F>(res)
TraceResult(r, F, raw) ==
    IF r.tag = "Ok" THEN Effect(Ok(r.val), 0, 0)
    ELSE Effect(Err(Trace(From(F, r.val), StackInfoNew(raw))), 1, 1)

\* Trace::trace that captures again where it is called
TraceTraceRecaptures(r, F) ==
    IF r.tag = "Ok" THEN Effect(Ok(r.val), 0, 0)
    ELSE Effect(Err(Trace(From(F, r.val.err),
                          StackInfoNew(EnumerateFrames(callstack, ViaTraceResult)))), 1, 1)

\* Trace::trace that hands on an empty snapshot
TraceTraceLosesSnapshot(r, F) ==
    IF r.tag = "Ok" THEN Effect(Ok(r.val), 0, 0)
    ELSE Effect(Err(Trace(From(F, r.val.err), <<>>)), 0, 1)

\* Trace::trace::<A, F>(res)
TraceTrace(r, F) ==
    IF r.tag = "Ok" THEN Effect(Ok(r.val), 0, 0)
    ELSE Effect(Err(Trace(From(F, r.val.err), r.val.stacktrace)), 0, 1)

----------------------------------------------------------------------------
(* The user's program: main and layer1 .. layerN calling down, failing,    *)
(* tracing, relaying and handling, as examples/ex1, ex2 and simple do.     *)

\* the library call a step made: the function, its argument and type
\* parameter, what it returned, the stack it was called on and the counters
\* as they were before it
NoCall == [op |-> "none", arg |-> NoResult, F |-> "", out |-> NoResult,
           stack |-> <<>>, walks0 |-> 0, convs0 |-> 0]
Called(op, arg, F, eff, stack) ==
    [op |-> op, arg |-> arg, F |-> F, out |-> eff.out,
     stack |-> stack, walks0 |-> walks, convs0 |-> convs]

NoChain == [active |-> FALSE, err0 |-> <<>>, snap0 |-> <<>>, stack0 |-> <<>>,
            walks0 |-> 0, hops |-> <<>>]

IsTraced(r) == r.tag = "Err" /\ chain.active
IsPlainErr(r) == r.tag = "Err" /\ ~chain.active

Init ==
    /\ symtab \in {PlatformTable(k) : k \in [Crates -> Kinds]}
    /\ callstack = <<FnMain>>
    /\ res = NoResult
    /\ walks = 0
    /\ convs = 0
    /\ last = NoCall
    /\ chain = NoChain
    /\ input = <<>>
    /\ output = <<>>

\* the running function calls a deeper layer
Call(f) ==
    /\ res.tag = "None"
    /\ IsUserFn(f) /\ f # FnMain
    /\ Len(callstack) = 1 \/ f < callstack[Len(callstack)]
    /\ callstack' = Append(callstack, f)
    /\ UNCHANGED <<symtab, res, walks, convs, chain, input, output>>
    /\ last' = NoCall

\* the running function computes Ok(a)
Succeed(a) ==
    /\ res.tag = "None"
    /\ res' = Ok(a)
    /\ UNCHANGED <<symtab, callstack, walks, convs, chain, input, output>>
    /\ last' = NoCall

\* the running function fails with Err(ErrorX(msg)) (ex2, test1)
Fail(msg) ==
    /\ res.tag = "None"
    /\ res' = Err(ErrorX(msg))
    /\ UNCHANGED <<symtab, callstack, walks, convs, chain, input, output>>
    /\ last' = NoCall

\* the running function calls StackInfo::new() itself (ex1, main)
CallStackInfoNew ==
    /\ res.tag = "None"
    /\ walks < MaxWalks
    /\ walks' = walks + 1
    /\ last' = Called("capture", NoResult, "",
                      Effect(StackInfoNew(EnumerateFrames(callstack, ViaDirect)), 1, 0), callstack)
    /\ UNCHANGED <<symtab, callstack, res, convs, chain, input, output>>

\* the running function fails with Err(Trace::new(ErrorX(msg))) (ex1, test2)
CallTraceNew(msg) ==
    /\ res.tag = "None"
    /\ walks < MaxWalks
    /\ LET eff == TraceNew(ErrorX(msg), EnumerateFrames(callstack, ViaTraceNew))
       IN  /\ res' = Err(eff.out)
           /\ walks' = walks + eff.walked
           /\ convs' = convs + eff.converted
           /\ last' = Called("new", Err(ErrorX(msg)), "ErrorX", [eff EXCEPT !.out = Err(eff.out)], callstack)
           /\ chain' = [active |-> TRUE, err0 |-> ErrorX(msg), snap0 |-> eff.out.stacktrace,
                        stack0 |-> callstack, walks0 |-> walks, hops |-> <<>>]
    /\ UNCHANGED <<symtab, callstack, input, output>>

\* the running function calls Trace::result on the untraced result it got
\* (ex2, test2)
CallTraceResult(F) ==
    /\ res.tag = "Ok" \/ IsPlainErr(res)
    /\ res.tag = "Err" => HasFrom(TypeOf(res.val), F) /\ walks < MaxWalks
    /\ LET eff == TraceResult(res, F, EnumerateFrames(callstack, ViaTraceResult))
       IN  /\ res' = eff.out
           /\ walks' = walks + eff.walked
           /\ convs' = convs + eff.converted
           /\ last' = Called("result", res, IF res.tag = "Err" THEN F ELSE "", eff, callstack)
           /\ chain' = IF res.tag = "Ok" THEN chain
                       ELSE [active |-> TRUE, err0 |-> eff.out.val.err,
                             snap0 |-> eff.out.val.stacktrace,
                             stack0 |-> callstack, walks0 |-> walks, hops |-> <<>>]
    /\ UNCHANGED <<symtab, callstack, input, output>>

\* the running function calls Trace::trace on the traced result it got
\* (ex2, test3)
CallTraceTrace(F) ==
    /\ res.tag = "Ok" \/ IsTraced(res)
    /\ res.tag = "Err" => HasFrom(TypeOf(res.val.err), F) /\ Len(chain.hops) < MaxHops
    /\ LET eff == TraceTrace(res, F)
       IN  /\ res' = eff.out
           /\ walks' = walks + eff.walked
           /\ convs' = convs + eff.converted
           /\ last' = Called("trace", res, IF res.tag = "Err" THEN F ELSE "", eff, callstack)
           /\ chain' = IF res.tag = "Ok" THEN chain
                       ELSE [chain EXCEPT !.hops = Append(@, F)]
    /\ UNCHANGED <<symtab, callstack, input, output>>

\* the running function returns its result to its caller (try!)
Return ==
    /\ res.tag # "None"
    /\ Len(callstack) > 1
    /\ callstack' = SubSeq(callstack, 1, Len(callstack) - 1)
    /\ UNCHANGED <<symtab, res, walks, convs, chain, input, output>>
    /\ last' = NoCall

\* the running function consumes the result (prints it, unwraps it)
Handle ==
    /\ res.tag # "None"
    /\ res' = NoResult
    /\ walks' = 0
    /\ convs' = 0
    /\ last' = NoCall
    /\ chain' = NoChain
    /\ UNCHANGED <<symtab, callstack, input, output>>

Next ==
    \/ \E f \in AllFns : Call(f)
    \/ \E a \in OkVals : Succeed(a)
    \/ \E msg \in ErrMsgs : Fail(msg)
    \/ CallStackInfoNew
    \/ \E msg \in ErrMsgs : CallTraceNew(msg)
    \/ \E F \in ErrTypes : CallTraceResult(F)
    \/ \E F \in ErrTypes : CallTraceTrace(F)
    \/ Return
    \/ Handle

Spec == Init /\ [][Next]_vars

----------------------------------------------------------------------------
(* One capture over a frame the platform resolves in every possible way.   *)
(* input is what backtrace::trace enumerates: a frame whose symbols are    *)
(* drawn from SymbolPool, then main's frame with full debug information;   *)
(* output is the snapshot StackInfo::new returns.                          *)

NameBytes == {Bytes(TRUE, Mangle("simple::layer1")), Bytes(TRUE, "main"),
              Bytes(TRUE, "_ZN?"), Bytes(FALSE, "?")}
FileBytes == {Bytes(TRUE, "src/main.rs"), Bytes(FALSE, "?")}
OptionOf(S) == {None} \cup {Some(x) : x \in S}
SymbolPool == {Symbol(n, a, f, l) : n \in OptionOf(NameBytes), a \in OptionOf({AddrOf(Layer(1))}),
                                    f \in OptionOf(FileBytes), l \in OptionOf({7})}
SeqsUpTo(S, n) == UNION {[1 .. k -> S] : k \in 0 .. n}

NotCaptured == [done |-> FALSE, frames |-> <<>>]

InitSymbol ==
    /\ \E syms \in SeqsUpTo(SymbolPool, MaxSyms) :
          symtab = [ip \in {IpOf(Layer(1)), IpOf(FnMain)} |->
                       IF ip = IpOf(FnMain) THEN <<FullSym(FnMain)>> ELSE syms]
    /\ input = <<RawFrame(Layer(1)), RawFrame(FnMain)>>
    /\ output = NotCaptured
    /\ callstack = <<FnMain, Layer(1)>>
    /\ res = NoResult
    /\ walks = 0
    /\ convs = 0
    /\ last = NoCall
    /\ chain = NoChain

\* StackInfo::new() with the thread's frames being input
CaptureInput ==
    /\ ~output.done
    /\ output' = [done |-> TRUE, frames |-> StackInfoNew(input)]
    /\ walks' = walks + 1
    /\ UNCHANGED <<symtab, callstack, res, convs, last, chain, input>>

NextSymbol == CaptureInput

SpecSymbol == InitSymbol /\ [][NextSymbol]_vars

----------------------------------------------------------------------------
(* The Debug renderings.  A rendering is the text the write! calls append  *)
(* to the formatter, with ok: whether fmt returned Ok(()).                 *)

Digit(d) == SubSeq("0123456789abcdef", d + 1, d + 1)

\* {} of an unsigned integer
RECURSIVE Dec(_)
Dec(n) == IF n < 10 THEN Digit(n) ELSE Dec(n \div 10) \o Digit(n % 10)

\* lower-case hexadecimal, as {:p} prints an address after "0x"
RECURSIVE Hex(_)
Hex(n) == IF n < 16 THEN Digit(n) ELSE Hex(n \div 16) \o Digit(n % 16)

\* s filled on the left with c up to width w
RECURSIVE PadLeft(_, _, _)
PadLeft(s, w, c) == IF Len(s) >= w THEN s ELSE PadLeft(c \o s, w, c)

\* {:4} of the index: right-aligned in 4 columns
FmtIndex(i) == PadLeft(Dec(i), 4, " ")

\* {:018p} (64-bit targets) and {:010p} (32-bit targets): "0x", then the
\* address zero-filled to the width
FmtPointer(ip, bits) == "0x" \o PadLeft(Hex(ip), (IF bits = 64 THEN 18 ELSE 10) - 2, "0")

\* {:?} of the user's error types, #[derive(Debug)] tuple structs of a String
RECURSIVE DebugErr(_)
DebugErr(e) == IF Len(e) = 1 THEN "\"" \o e[1] \o "\""
               ELSE e[1] \o "(" \o DebugErr(Tail(e)) \o ")"

\* a FrameInfo that prints a missing line number as 0
DebugFrameInfoLineZero(frame, bits) ==
    LET name == IF IsSome(frame.name) THEN Unwrap(frame.name) ELSE "<unknown>"
        filename == IF IsSome(frame.filename) THEN Unwrap(frame.filename) ELSE "<unknown>"
        lineno == IF IsSome(frame.lineno) THEN Dec(Unwrap(frame.lineno)) ELSE "0"
    IN  [ok |-> TRUE,
         text |-> FmtPointer(frame.ip, bits) \o " - " \o name \o " (" \o filename \o ":" \o lineno \o ")"]

\* impl fmt::Debug for FrameInfo
DebugFrameInfo(frame, bits) ==
    LET name == IF IsSome(frame.name) THEN Unwrap(frame.name) ELSE "<unknown>"
        filename == IF IsSome(frame.filename) THEN Unwrap(frame.filename) ELSE "<unknown>"
        lineno == IF IsSome(frame.lineno) THEN Dec(Unwrap(frame.lineno)) ELSE "<unknown>"
    IN  [ok |-> TRUE,
         text |-> FmtPointer(frame.ip, bits) \o " - " \o name \o " (" \o filename \o ":" \o lineno \o ")"]

\* the loop of StackInfo's fmt from frame index on: try! stops at the first
\* write that fails
RECURSIVE DebugFrames(_, _, _)
DebugFrames(st, index, bits) ==
    IF index >= Len(st) THEN [ok |-> TRUE, text |-> ""]
    ELSE LET f == DebugFrameInfo(st[index + 1], bits)
             rest == DebugFrames(st, index + 1, bits)
         IN  IF ~f.ok THEN [ok |-> FALSE, text |-> FmtIndex(index) \o " - " \o f.text]
             ELSE [ok |-> rest.ok,
                   text |-> FmtIndex(index) \o " - " \o f.text \o "\n" \o rest.text]

\* impl fmt::Debug for StackInfo
DebugStackInfo(st, bits) ==
    LET frames == DebugFrames(st, 0, bits)
    IN  [ok |-> frames.ok, text |-> "stack backtrace:\n" \o frames.text]

\* a Trace that prints the error's own text first, with no wrapper
DebugTraceUnwrapped(t, bits) ==
    LET st == DebugStackInfo(t.stacktrace, bits)
    IN  [ok |-> st.ok, text |-> DebugErr(t.err) \o "\n" \o st.text]

\* impl<E: fmt::Debug> fmt::Debug for Trace<E>
DebugTrace(t, bits) ==
    LET st == DebugStackInfo(t.stacktrace, bits)
    IN  IF ~st.ok THEN [ok |-> FALSE, text |-> "Trace {\n" \o "err: " \o DebugErr(t.err) \o "\n" \o st.text]
        ELSE [ok |-> TRUE,
              text |-> "Trace {\n" \o "err: " \o DebugErr(t.err) \o "\n" \o st.text \o "}"]

----------------------------------------------------------------------------
(* Rendering a Trace drawn from every combination of present and absent    *)
(* fields: input is the Trace and the target's pointer width, output the   *)
(* last rendering.                                                         *)

FramePool == {FrameInfo(ip, n, None, f, l) :
                 ip \in {0, IpOf(Layer(1))}, n \in OptionOf({"simple::layer1"}),
                 f \in OptionOf({"src/main.rs"}), l \in OptionOf({42})}
RenderErrs == {ErrorX("boom"), From("ErrorY", ErrorX("oh no!"))}
PointerWidths == {32, 64}

NotRendered == [of |-> "none", ok |-> TRUE, text |-> ""]

InitRender ==
    /\ input \in [trace : {Trace(e, st) : e \in RenderErrs, st \in SeqsUpTo(FramePool, MaxFrames)},
                  bits : PointerWidths]
    /\ output = NotRendered
    /\ symtab = <<>>
    /\ callstack = <<FnMain>>
    /\ res = NoResult
    /\ walks = 0
    /\ convs = 0
    /\ last = NoCall
    /\ chain = NoChain

\* format!("{:?}", trace.stacktrace)
RenderStackInfo ==
    /\ output' = [of |-> "StackInfo"] @@ DebugStackInfo(input.trace.stacktrace, input.bits)
    /\ UNCHANGED <<symtab, callstack, res, walks, convs, last, chain, input>>

\* format!("{:?}", trace)
RenderTrace ==
    /\ output' = [of |-> "Trace"] @@ DebugTrace(input.trace, input.bits)
    /\ UNCHANGED <<symtab, callstack, res, walks, convs, last, chain, input>>

NextRender == RenderStackInfo \/ RenderTrace

SpecRender == InitRender /\ [][NextRender]_vars

----------------------------------------------------------------------------
(* Vocabulary of the properties                                            *)

\* the instruction pointers of a snapshot's entries, in order
IpsOf(st) == [i \in 1 .. Len(st) |-> st[i].ip]
IsUserIp(ip) == IsUserFn(FnOfIp(ip))
IsMachineryIp(ip) == IsMachineryFn(FnOfIp(ip))
UserIpsOf(st) == SelectSeq(IpsOf(st), IsUserIp)

\* ip, once per symbol the platform resolves it to
RECURSIVE Times(_, _)
Times(x, n) == IF n = 0 THEN <<>> ELSE <<x>> \o Times(x, n - 1)
PerSymbol(ip) == Times(ip, Len(symtab[ip]))

\* the user's frames of a stack as a snapshot lists them: innermost first,
\* one entry per resolved symbol
RECURSIVE UserEntries(_)
UserEntries(stack) ==
    IF stack = <<>> THEN <<>>
    ELSE PerSymbol(IpOf(stack[Len(stack)])) \o UserEntries(SubSeq(stack, 1, Len(stack) - 1))

\* st is a snapshot of the user's stack: its user entries are those of the
\* stack, innermost first
SnapshotOf(st, stack) == UserIpsOf(st) = UserEntries(stack)

\* the conversions of a list of hops applied to e in hop order
RECURSIVE Compose(_, _)
Compose(hops, e) == IF hops = <<>> THEN e ELSE Compose(Tail(hops), From(Head(hops), e))

\* sub occurs in s
Contains(s, sub) == \E i \in 1 .. Len(s) - Len(sub) + 1 : SubSeq(s, i, i + Len(sub) - 1) = sub

Top(stack) == stack[Len(stack)]

\* the positions of the line feeds of text
LineFeeds(text) == {i \in 1 .. Len(text) : SubSeq(text, i, i) = "\n"}

\* the k-th of the positions nl (0 for k = 0)
LineFeed(nl, k) ==
    IF k = 0 THEN 0 ELSE CHOOSE i \in nl : Cardinality({j \in nl : j <= i}) = k

\* the pieces of text that end with a line feed, and what follows the last
LinesOf(text) ==
    LET nl == LineFeeds(text)
        n == Cardinality(nl)
    IN  [lines |-> [k \in 1 .. n |-> SubSeq(text, LineFeed(nl, k - 1) + 1, LineFeed(nl, k) - 1)],
         rest |-> SubSeq(text, LineFeed(nl, n) + 1, Len(text))]

Spaces(n) == SubSeq("    ", 1, n)
OrUnknown(o) == IF IsSome(o) THEN Unwrap(o) ELSE "<unknown>"
LineOrUnknown(o) == IF IsSome(o) THEN ToString(Unwrap(o)) ELSE "<unknown>"

\* line is "<index, right-aligned to 4> - <address> - <name> (<file>:<line>)"
\* for the frame, absent fields reading <unknown>
IsFrameLine(line, index, frame) ==
    LET idx == Spaces(4 - Len(ToString(index))) \o ToString(index) \o " - "
        tail == " - " \o OrUnknown(frame.name) \o " (" \o OrUnknown(frame.filename)
                    \o ":" \o LineOrUnknown(frame.lineno) \o ")"
        addr == SubSeq(line, Len(idx) + 1, Len(line) - Len(tail))
    IN  /\ Len(line) > Len(idx) + Len(tail)
        /\ SubSeq(line, 1, Len(idx)) = idx
        /\ SubSeq(line, Len(line) - Len(tail) + 1, Len(line)) = tail
        /\ SubSeq(addr, 1, 2) = "0x"
        /\ ~Contains(addr, " ")

----------------------------------------------------------------------------
(* C1: Trace::trace on Err(Trace{err: e, stacktrace: S}) returns           *)
(* Err(Trace{err: From::from(e), stacktrace: S}) with S the input's        *)
(* snapshot, frame for frame; From::from is called once and StackInfo::new *)
(* (backtrace::trace) is not called.                                       *)
C1_TracePreservesSnapshot ==
    (last.op = "trace" /\ last.arg.tag = "Err") =>
        /\ res.tag = "Err"
        /\ Len(res.val.stacktrace) = Len(last.arg.val.stacktrace)
        /\ \A i \in 1 .. Len(res.val.stacktrace) :
              res.val.stacktrace[i] = last.arg.val.stacktrace[i]
        /\ res.val.err = From(last.F, last.arg.val.err)
        /\ convs = last.convs0 + 1
        /\ walks = last.walks0

\* a traced error with a snapshot of several frames was re-typed by
\* Trace::trace at another call depth than the one it was traced at
C1_Witness ==
    /\ last.op = "trace" /\ last.arg.tag = "Err"
    /\ Len(last.arg.val.stacktrace) >= 2
    /\ last.F # TypeOf(last.arg.val.err)
    /\ callstack # chain.stack0

(* C2: Trace::result on Err(e) returns Err(Trace{err: From::from(e),       *)
(* stacktrace: S'}) where S' comes from the one capture the call makes, of *)
(* the stack at the call; Trace::new(e) pairs e itself with the one        *)
(* capture it makes.                                                       *)
C2_FreshCapture ==
    /\ (last.op = "result" /\ last.arg.tag = "Err") =>
          /\ res.tag = "Err"
          /\ res.val.err = From(last.F, last.arg.val)
          /\ SnapshotOf(res.val.stacktrace, callstack)
          /\ walks = last.walks0 + 1
          /\ convs = last.convs0 + 1
    /\ last.op = "new" =>
          /\ res.tag = "Err"
          /\ res.val.err = last.arg.val
          /\ SnapshotOf(res.val.stacktrace, callstack)
          /\ walks = last.walks0 + 1
          /\ convs = last.convs0

\* Trace::result converted a plain error to another type below main and
\* captured a snapshot of several frames
C2_Witness ==
    /\ last.op = "result" /\ last.arg.tag = "Err"
    /\ last.F # TypeOf(last.arg.val)
    /\ Len(callstack) >= 2
    /\ Len(res.val.stacktrace) >= 2

(* C3: Trace::result(Ok(a)) and Trace::trace(Ok(a)) return Ok(a) with the  *)
(* same a, calling neither From::from nor StackInfo::new.                  *)
C3_PassThrough ==
    (last.op \in {"result", "trace"} /\ last.arg.tag = "Ok") =>
        /\ res.tag = "Ok"
        /\ res.val = last.arg.val
        /\ walks = last.walks0
        /\ convs = last.convs0

\* a success value went through Trace::result or Trace::trace
C3_Witness ==
    /\ last.op \in {"result", "trace"} /\ last.arg.tag = "Ok"
    /\ res.tag = "Ok"

(* C4: a traced error relayed through any number of Trace::trace hops      *)
(* keeps the snapshot of the call that first traced it, one capture was    *)
(* made over the whole chain, and its error value is the hops' conversions *)
(* applied in hop order to the error first traced.                         *)
C4_OriginPreserved ==
    chain.active =>
        /\ res.tag = "Err"
        /\ res.val.stacktrace = chain.snap0
        /\ SnapshotOf(res.val.stacktrace, chain.stack0)
        /\ walks = chain.walks0 + 1
        /\ res.val.err = Compose(chain.hops, chain.err0)

\* a chain of an origin and MaxHops hops, the last one nearer to main than
\* the origin, where a capture at the hop would have given another snapshot
C4_Witness ==
    /\ chain.active /\ last.op = "trace"
    /\ Len(chain.hops) >= MaxHops
    /\ Len(callstack) < Len(chain.stack0)
    /\ Len(chain.snap0) >= 2
    /\ ~SnapshotOf(chain.snap0, callstack)

(* C5: every raw frame backtrace::trace enumerates during a capture has a  *)
(* descriptor with its instruction pointer in the snapshot, also when      *)
(* backtrace::resolve reports no symbol for it; that descriptor then has   *)
(* name, addr, filename and lineno all absent.                             *)
C5_UnresolvedFramesKept ==
    last.op = "capture" =>
        \A f \in 1 .. Len(EnumerateFrames(last.stack, ViaDirect)) :
            LET ip == EnumerateFrames(last.stack, ViaDirect)[f].ip
            IN  \E i \in 1 .. Len(last.out) :
                    /\ last.out[i].ip = ip
                    /\ Resolve(ip) = <<>> =>
                          /\ IsNone(last.out[i].name) /\ IsNone(last.out[i].addr)
                          /\ IsNone(last.out[i].filename) /\ IsNone(last.out[i].lineno)

(* C6: the rendering of a Trace begins with the error's own Debug text,    *)
(* nothing before it, followed by the line "stack backtrace:" and the      *)
(* snapshot's frame lines in snapshot order.                               *)
C6_ErrorTextFirst ==
    output.of = "Trace" =>
        LET own == DebugErr(input.trace.err)
            r == LinesOf(output.text)
        IN  /\ SubSeq(output.text, 1, Len(own)) = own
            /\ Len(r.lines) = Len(input.trace.stacktrace) + 2
            /\ r.lines[2] = "stack backtrace:"
            /\ \A i \in 1 .. Len(input.trace.stacktrace) :
                  IsFrameLine(r.lines[i + 2], i - 1, input.trace.stacktrace[i])

(* C6, amended: the rendering of a Trace is the line "Trace {", the line   *)
(* "err: " followed by the error's own Debug text, the line                *)
(* "stack backtrace:", the snapshot's frame lines in snapshot order, and a *)
(* closing "}"; "Trace {" and "err: " precede the error's text.            *)
C6_TraceRendering ==
    output.of = "Trace" =>
        LET r == LinesOf(output.text)
            n == Len(input.trace.stacktrace)
        IN  /\ output.ok
            /\ Len(r.lines) = n + 3
            /\ r.lines[1] = "Trace {"
            /\ r.lines[2] = "err: " \o DebugErr(input.trace.err)
            /\ r.lines[3] = "stack backtrace:"
            /\ \A i \in 1 .. n : IsFrameLine(r.lines[i + 3], i - 1, input.trace.stacktrace[i])
            /\ r.rest = "}"

\* a Trace of a wrapped error and a snapshot of MaxFrames frames was rendered
C6_Witness ==
    /\ output.of = "Trace"
    /\ Len(input.trace.err) > 2
    /\ Len(input.trace.stacktrace) >= MaxFrames
    /\ Contains(output.text, "ErrorY(ErrorX(\"oh no!\"))\nstack backtrace:\n   0 - 0x")

(* C7: the rendering of a snapshot of n frames is the line                 *)
(* "stack backtrace:" and then exactly n lines, the i-th (from 0) being    *)
(* the index right-aligned to width 4, " - <address> - <name>              *)
(* (<file>:<line>)", with name, file and line each reading <unknown>       *)
(* exactly when absent; rendering does not fail.                           *)
C7_SnapshotRendering ==
    output.of = "StackInfo" =>
        LET r == LinesOf(output.text)
            n == Len(input.trace.stacktrace)
        IN  /\ output.ok
            /\ Len(r.lines) = n + 1
            /\ r.rest = ""
            /\ r.lines[1] = "stack backtrace:"
            /\ \A i \in 1 .. n : IsFrameLine(r.lines[i + 1], i - 1, input.trace.stacktrace[i])

\* a snapshot was rendered whose first frame has no name, file or line and
\* whose second has a name and a line but no file
C7_Witness ==
    /\ output.of = "StackInfo"
    /\ Len(input.trace.stacktrace) >= 2
    /\ IsNone(input.trace.stacktrace[1].name)
    /\ IsNone(input.trace.stacktrace[1].filename)
    /\ IsNone(input.trace.stacktrace[1].lineno)
    /\ IsSome(input.trace.stacktrace[2].name)
    /\ IsNone(input.trace.stacktrace[2].filename)
    /\ IsSome(input.trace.stacktrace[2].lineno)
    /\ Contains(output.text, " - <unknown> (<unknown>:<unknown>)\n   1 - 0x")
    /\ Contains(output.text, " - simple::layer1 (<unknown>:42)\n")

(* C8: a StackInfo::new() called directly by layer1 gives a snapshot whose *)
(* first entry is layer1's frame, named "...layer1..."; with layer3 ->     *)
(* layer2 -> layer1 the first three entries are layer1, layer2, layer3.    *)
(* Stated for the platforms where every user frame resolves to one symbol. *)
C8_CapturePointFirst ==
    (/\ last.op = "capture"
     /\ Top(last.stack) = Layer(1)
     /\ \A k \in 1 .. Len(last.stack) : Len(Resolve(IpOf(last.stack[k]))) = 1) =>
        /\ Len(last.out) >= Len(last.stack)
        /\ IsSome(last.out[1].name)
        /\ Contains(Unwrap(last.out[1].name), "layer1")
        /\ \A k \in 1 .. Len(last.stack) :
              last.out[k].ip = IpOf(Reverse(last.stack)[k])

(* C8, amended: the snapshot of a direct StackInfo::new() lists first the  *)
(* entries of the capture machinery (backtrace::trace, StackInfo::new),    *)
(* one per symbol they resolve to, and only then the user's frames,        *)
(* innermost first; layer1's entry is at index 0 only where no machinery   *)
(* frame resolves.                                                         *)
C8_MachineryFirst ==
    last.op = "capture" =>
        LET m == Len(Resolve(IpOf(FnBacktraceTrace))) + Len(Resolve(IpOf(FnStackInfoNew)))
        IN  /\ Len(last.out) >= m
            /\ \A i \in 1 .. Len(last.out) : IsMachineryIp(last.out[i].ip) <=> i <= m
            /\ SubSeq(IpsOf(last.out), 1, m) =
                   PerSymbol(IpOf(FnBacktraceTrace)) \o PerSymbol(IpOf(FnStackInfoNew))
            /\ SubSeq(IpsOf(last.out), m + 1, Len(last.out)) = UserEntries(last.stack)
            /\ (Len(last.out) > m /\ Len(Resolve(last.out[m + 1].ip)) = 1) =>
                   last.out[m + 1].name = Some(FnPath(FnOfIp(last.out[m + 1].ip)))

\* main -> layer3 -> layer2 -> layer1 -> StackInfo::new() with debug symbols:
\* the listing of the doc example, machinery at 0 and 1, layer1 at 2
C8_Witness ==
    /\ last.op = "capture"
    /\ last.stack = <<FnMain, Layer(3), Layer(2), Layer(1)>>
    /\ Len(last.out) = 6
    /\ last.out[1].name = Some("backtrace::trace")
    /\ last.out[2].name = Some("stacktrace::StackInfo::new")
    /\ Contains(Unwrap(last.out[3].name), "layer1")
    /\ Contains(Unwrap(last.out[4].name), "layer2")
    /\ Contains(Unwrap(last.out[5].name), "layer3")

(* C9: a snapshot is exactly backtrace::trace's innermost-first frame      *)
(* enumeration mapped to descriptors: one entry per enumerated frame, in   *)
(* the enumeration's order, none dropped and none duplicated.              *)
C9_SnapshotIsEnumeration ==
    last.op = "capture" =>
        IpsOf(last.out) = [i \in 1 .. Len(EnumerateFrames(last.stack, ViaDirect)) |->
                              EnumerateFrames(last.stack, ViaDirect)[i].ip]

(* C10: a descriptor's name is present only if the symbol has a raw name   *)
(* that is valid UTF-8 and demangles, and is then the demangled text,      *)
(* never the mangled one; a name that fails leaves only the name absent:   *)
(* addr and lineno are the symbol's own, filename is the symbol's when it  *)
(* is present and valid UTF-8 and absent otherwise, and the capture goes   *)
(* on to the next frame.                                                   *)
C10_PerFieldResolution ==
    output.done =>
        LET syms == symtab[input[1].ip]
            out == output.frames
        IN  /\ Len(out) = Len(syms) + 1
            /\ \A i \in 1 .. Len(syms) :
                  LET s == syms[i]
                      d == out[i]
                      nameOk == /\ IsSome(s.name)
                                /\ Unwrap(s.name).utf8
                                /\ Demangle(Unwrap(s.name).text).ok
                  IN  /\ d.ip = input[1].ip
                      /\ IsSome(d.name) <=> nameOk
                      /\ nameOk => /\ d.name = Some(Demangle(Unwrap(s.name).text).text)
                                   /\ IsMangled(Unwrap(s.name).text) =>
                                         Unwrap(d.name) # Unwrap(s.name).text
                      /\ d.addr = s.addr
                      /\ d.lineno = s.lineno
                      /\ d.filename = IF IsSome(s.filename) /\ Unwrap(s.filename).utf8
                                      THEN Some(Unwrap(s.filename).text) ELSE None
            /\ out[Len(out)].ip = input[2].ip
            /\ out[Len(out)].name = Some(FnPath(FnMain))

\* a symbol whose name does not demangle but whose addr, file and line are
\* there, followed by one whose mangled name does demangle
C10_Witness ==
    /\ output.done
    /\ Len(output.frames) = 3
    /\ symtab[input[1].ip][1].name = Some(Bytes(TRUE, "_ZN?"))
    /\ IsNone(output.frames[1].name)
    /\ IsSome(output.frames[1].addr)
    /\ output.frames[1].filename = Some("src/main.rs")
    /\ IsSome(output.frames[1].lineno)
    /\ output.frames[2].name = Some("simple::layer1")
    /\ IsNone(output.frames[2].filename)

====
